---- MODULE Spec2Model ----
(***************************************************************************)
(* Model of src/app.py, the Streamlit image-processing dashboard.          *)
(*                                                                         *)
(* The script is re-executed top to bottom on every interaction (a new     *)
(* upload, a removed upload, a mode selection, a slider move).  One action *)
(* of the model is one interaction followed by the whole script run.      *)
(*                                                                         *)
(* Representation.                                                         *)
(*   - A pixel is a tuple of band values, <<v>> for a single-band image.   *)
(*   - A PIL image is [mode, size = <<width, height>>, format, data] with  *)
(*     data a sequence of rows, each a sequence of pixels.                 *)
(*   - A numpy array is [dtype, shape, data, num, den]; shape is <<h, w>>  *)
(*     or <<h, w, c>>.  An integer array holds its values in data.  A      *)
(*     float array (the Sobel output) holds, for each element x, the       *)
(*     integer s with (255 * x)^2 = s * num / den, so that the square root *)
(*     is never taken before the code truncates it.                        *)
(*   - The library calls (PIL, numpy, OpenCV, scikit-image) are modelled   *)
(*     by what they compute on these values, at the line that calls them.  *)
(***************************************************************************)
EXTENDS Integers, Sequences, FiniteSets, TLC

VARIABLES uploaded_file, process_type, brightness_factor,
          image, img_array, processed_pil, processed_img,
          jpeg_img, screen, session

vars == <<uploaded_file, process_type, brightness_factor,
          image, img_array, processed_pil, processed_img,
          jpeg_img, screen, session>>

(***************************************************************************)
(* Bounds of the model.                                                    *)
(***************************************************************************)
\* Largest image side (height; the width is the height or one more).
MaxSide == 2

(***************************************************************************)
(* Arithmetic helpers.                                                     *)
(***************************************************************************)
RECURSIVE ISqrtBetween(_, _, _)
\* Largest r in lo..hi with r * r <= n (lo * lo <= n is given).
ISqrtBetween(n, lo, hi) ==
    IF lo >= hi THEN lo
    ELSE LET mid == (lo + hi + 1) \div 2
         IN  IF mid * mid <= n THEN ISqrtBetween(n, mid, hi)
                               ELSE ISqrtBetween(n, lo, mid - 1)

\* floor(sqrt(n)) for 0 <= n < 2^31.
ISqrt(n) == ISqrtBetween(n, 0, 46340)

\* p / q (q > 0, p >= 0) rounded to the nearest integer, ties to even: what
\* the format specification ".1f" does to a tie that is exact in binary.
RoundHalfEven(p, q) ==
    LET fl == p \div q
        r2 == 2 * (p % q)
    IN  IF r2 < q THEN fl
        ELSE IF r2 > q THEN fl + 1
        ELSE IF fl % 2 = 0 THEN fl ELSE fl + 1

RECURSIVE SumSeq(_)
SumSeq(s) == IF s = <<>> THEN 0 ELSE Head(s) + SumSeq(Tail(s))

SumOfSquares(xs) == SumSeq([k \in 1..Len(xs) |-> xs[k] * xs[k]])

RECURSIVE MaxSeq(_)
\* Largest element of a non-empty sequence.
MaxSeq(s) ==
    IF Len(s) = 1 THEN s[1]
    ELSE LET m == MaxSeq(Tail(s)) IN IF s[1] >= m THEN s[1] ELSE m

RECURSIVE FlattenRow(_)
\* The band values of every pixel of a row, in order.
FlattenRow(r) == IF r = <<>> THEN <<>> ELSE Head(r) \o FlattenRow(Tail(r))

RECURSIVE Flatten(_)
\* The band values of every pixel of every row, in order.
Flatten(rows) ==
    IF rows = <<>> THEN <<>> ELSE FlattenRow(Head(rows)) \o Flatten(Tail(rows))

(***************************************************************************)
(* Images, arrays and uploaded files.                                      *)
(***************************************************************************)
\* The colour modes the decoders of the accepted formats produce that the
\* model covers: bilevel, 8-bit gray, palette, 16-bit gray, gray + alpha,
\* RGB, RGB + alpha, CMYK.
Modes == {"1", "L", "P", "I;16", "LA", "RGB", "RGBA", "CMYK"}

\* Number of bands of a PIL mode (len(image.getbands())).
Bands(m) ==
    CASE m \in {"1", "L", "P", "I;16"} -> 1
      [] m = "LA" -> 2
      [] m = "RGB" -> 3
      [] m \in {"RGBA", "CMYK"} -> 4

\* The modes whose last band is an alpha channel ("A" in image.getbands()).
HasAlpha(m) == m \in {"LA", "RGBA"}

NoImage == [mode |-> "", size |-> <<0, 0>>, format |-> "", data |-> <<>>]

NoArray == [dtype |-> "", shape |-> <<>>, data |-> <<>>, num |-> 0, den |-> 0]

NoFile == [kind |-> "none", format |-> "", mode |-> "", size |-> <<0, 0>>,
           data |-> <<>>, nbytes |-> 0]

\* An uploaded file that carries an accepted extension and is no image.
GarbageFile == [kind |-> "garbage", format |-> "", mode |-> "", size |-> <<0, 0>>,
                data |-> <<>>, nbytes |-> 12]

\* The two pixels a test image of each mode is painted with.
PixelPairs(m) ==
    CASE m = "1"    -> {<< <<0>>, <<1>> >>, << <<1>>, <<1>> >>}
      [] m = "L"    -> {<< <<0>>, <<0>> >>, << <<0>>, <<1>> >>, << <<128>>, <<255>> >>,
                        << <<200>>, <<90>> >>}
      [] m = "P"    -> {<< <<0>>, <<1>> >>, << <<3>>, <<7>> >>}
      [] m = "I;16" -> {<< <<1>>, <<0>> >>, << <<256>>, <<300>> >>}
      [] m = "LA"   -> {<< <<128, 255>>, <<0, 128>> >>}
      [] m = "RGB"  -> {<< <<0, 0, 0>>, <<255, 255, 255>> >>,
                        << <<128, 128, 128>>, <<128, 128, 128>> >>,
                        << <<200, 100, 50>>, <<10, 20, 30>> >>}
      [] m = "RGBA" -> {<< <<255, 0, 0, 255>>, <<0, 0, 255, 128>> >>,
                        << <<1, 1, 1, 0>>, <<0, 0, 0, 0>> >>}
      [] m = "CMYK" -> {<< <<0, 255, 255, 0>>, <<40, 0, 0, 100>> >>}

\* A checkerboard ("checker") or a first column against the rest ("split").
TestData(h, w, a, b, pat) ==
    [i \in 1..h |-> [j \in 1..w |->
        IF pat = "checker" THEN (IF (i + j) % 2 = 0 THEN a ELSE b)
                           ELSE (IF j = 1 THEN a ELSE b)]]

Shapes == {hw \in (1..MaxSide) \X (1..MaxSide) : hw[2] \in {hw[1], hw[1] + 1}}

\* The container format each mode is read from in the model.
FormatOf(m) ==
    CASE m \in {"CMYK", "L"} -> "JPEG"
      [] m = "P" -> "BMP"
      [] m = "I;16" -> "TIFF"
      [] OTHER -> "PNG"

ImageFiles ==
    UNION { { [kind |-> "image", format |-> FormatOf(m), mode |-> m,
               size |-> <<hw[2], hw[1]>>,
               data |-> TestData(hw[1], hw[2], ab[1], ab[2], pat),
               nbytes |-> 64 + hw[1] * hw[2] * Bands(m)
                               * (IF m = "I;16" THEN 2 ELSE 1)] :
              hw \in Shapes, ab \in PixelPairs(m), pat \in {"checker", "split"} } :
            m \in Modes }

\* What the file uploader can hand to the script.
Uploads == ImageFiles \cup {GarbageFile}

(***************************************************************************)
(* Exceptions and results of the calls that can raise.                     *)
(***************************************************************************)
NoErr == [cls |-> "", msg |-> ""]

Raise(c, m, v) == [ok |-> FALSE, val |-> v, err |-> [cls |-> c, msg |-> m]]

Return(v) == [ok |-> TRUE, val |-> v, err |-> NoErr]

\* The classes the library calls of the script raise; all derive from
\* Exception.
ExceptionClasses == {"UnidentifiedImageError", "OSError", "ValueError", "cv2.error"}

(***************************************************************************)
(* Input acquisition: Image.open and np.array.                             *)
(***************************************************************************)
\* Image.open(uploaded_file)
ImageOpen(file) ==
    IF file.kind = "image"
    THEN Return([mode |-> file.mode, size |-> file.size, format |-> file.format,
                 data |-> file.data])
    ELSE Raise("UnidentifiedImageError", "cannot identify image file", NoImage)

\* The numpy dtype np.array gives an image of mode m.
DTypeOf(m) ==
    CASE m = "1" -> "bool"
      [] m = "I;16" -> "uint16"
      [] OTHER -> "uint8"

\* An acquisition that converted every multi-band image to RGB first:
\* gray+alpha repeats its gray band, RGBA drops alpha, CMYK is inverted
\* and scaled by its black band.
NpArrayThreeChannels(im) ==
    [dtype |-> DTypeOf(im.mode),
     shape |-> IF Bands(im.mode) = 1 THEN <<im.size[2], im.size[1]>>
               ELSE <<im.size[2], im.size[1], 3>>,
     data |-> [i \in 1..im.size[2] |-> [j \in 1..im.size[1] |->
                 CASE im.mode = "LA" ->
                        <<im.data[i][j][1], im.data[i][j][1], im.data[i][j][1]>>
                   [] im.mode = "RGBA" ->
                        <<im.data[i][j][1], im.data[i][j][2], im.data[i][j][3]>>
                   [] im.mode = "CMYK" ->
                        [b \in 1..3 |-> ((255 - im.data[i][j][b])
                                           * (255 - im.data[i][j][4])) \div 255]
                   [] OTHER -> im.data[i][j]]],
     num |-> 1, den |-> 1]

\* np.array(image): (H, W) for a single-band image, (H, W, bands) otherwise.
NpArray(im) ==
    [dtype |-> DTypeOf(im.mode),
     shape |-> IF Bands(im.mode) = 1 THEN <<im.size[2], im.size[1]>>
               ELSE <<im.size[2], im.size[1], Bands(im.mode)>>,
     data |-> im.data, num |-> 1, den |-> 1]

\* The "Channels" line of the information panel.
ChannelsLine(arr) ==
    IF Len(arr.shape) = 3 THEN <<arr.shape[3], "Color">> ELSE <<1, "Grayscale">>

\* The information panel: dimensions, format, mode, file size in tenths of a
\* KB (".1f" of len / 1024), channels.
ImageInformation(file, im, arr) ==
    [dimensions |-> im.size, format |-> im.format, mode |-> im.mode,
     kb_tenths |-> RoundHalfEven(10 * file.nbytes, 1024),
     channels |-> ChannelsLine(arr)]

NoInformation ==
    [dimensions |-> <<0, 0>>, format |-> "", mode |-> "", kb_tenths |-> 0,
     channels |-> <<0, "">>]

(***************************************************************************)
(* Library calls of the transform dispatch.                                *)
(***************************************************************************)
\* OpenCV's 8-bit RGB to gray: fixed-point BT.601 weights, rounded.
Luma(px) == (px[1] * 9798 + px[2] * 19235 + px[3] * 3735 + 16384) \div 32768

\* cv2.cvtColor(arr, cv2.COLOR_RGB2GRAY): takes 3 or 4 channels (a fourth is
\* ignored) and raises on any other channel count, and on 64-bit floats.
CvtColorRGB2GRAY(arr) ==
    IF ~(Len(arr.shape) = 3 /\ arr.shape[3] \in {3, 4})
    THEN Raise("cv2.error", "Invalid number of channels in input image", NoArray)
    ELSE IF arr.dtype = "float64"
    THEN Raise("cv2.error", "Unsupported depth of input image", NoArray)
    ELSE Return([dtype |-> arr.dtype, shape |-> <<arr.shape[1], arr.shape[2]>>,
                 data |-> [i \in 1..arr.shape[1] |-> [j \in 1..arr.shape[2] |->
                              <<Luma(arr.data[i][j])>>]],
                 num |-> 1, den |-> 1])

\* Index i of an axis of length n under scipy's "reflect" boundary, for the
\* one step a 3-tap kernel leaves the array.
Reflect(i, n) == IF i < 1 THEN 1 ELSE IF i > n THEN n ELSE i

\* The value at (i, j) of a 2-D integer array extended by reflection.
At(arr, i, j) == arr.data[Reflect(i, arr.shape[1])][Reflect(j, arr.shape[2])][1]

\* The Sobel responses at (i, j), times 4: the difference along one axis
\* smoothed by (1, 2, 1) along the other.
SobelRows(arr, i, j) ==
      (At(arr, i + 1, j - 1) - At(arr, i - 1, j - 1))
    + 2 * (At(arr, i + 1, j) - At(arr, i - 1, j))
    + (At(arr, i + 1, j + 1) - At(arr, i - 1, j + 1))

SobelCols(arr, i, j) ==
      (At(arr, i - 1, j + 1) - At(arr, i - 1, j - 1))
    + 2 * (At(arr, i, j + 1) - At(arr, i, j - 1))
    + (At(arr, i + 1, j + 1) - At(arr, i + 1, j - 1))

\* skimage.filters.sobel(gray): the input is scaled to [0, 1] by its dtype's
\* range (img_as_float), each axis response is G / 4, and the magnitude is
\* sqrt((r0^2 + r1^2) / 2).  With s = G0^2 + G1^2 the element x satisfies
\* (255 x)^2 = s * num / den.
Sobel(arr) ==
    [dtype |-> "float64", shape |-> arr.shape,
     data |-> [i \in 1..arr.shape[1] |-> [j \in 1..arr.shape[2] |->
                 << SumOfSquares(<<SobelRows(arr, i, j), SobelCols(arr, i, j)>>) >>]],
     num |-> IF arr.dtype = "bool" THEN 65025 ELSE 1,
     den |-> IF arr.dtype = "uint16" THEN 32 * 257 * 257 ELSE 32]

\* Whether every float element of f, with (255 x)^2 = v * num / den, is
\* at most 1.
FloatsAtMostOne(f, num, den) ==
    \A k \in 1..Len(f) :
        \/ (f[k] * num) \div den < 65025
        \/ (f[k] * num) \div den = 65025 /\ (f[k] * num) % den = 0

\* The test written as max() < 1.
MaxBelowOne(arr) ==
    IF arr.dtype = "float64" THEN FloatsAtMostOne(Flatten(arr.data), arr.num, arr.den)
                             ELSE MaxSeq(Flatten(arr.data)) < 1

\* img_array.max() <= 1
MaxAtMostOne(arr) ==
    IF arr.dtype = "float64" THEN FloatsAtMostOne(Flatten(arr.data), arr.num, arr.den)
                             ELSE MaxSeq(Flatten(arr.data)) <= 1

\* One element of (img_array * 255).astype(np.uint8).
Times255AsUint8(arr, v) ==
    IF arr.dtype = "float64" THEN ISqrt((v * arr.num) \div arr.den) % 256
                             ELSE (v * 255) % 256

\* One element of img_array.astype(np.uint8): a float is truncated, an
\* integer is reduced modulo 256.
AsUint8(arr, v) ==
    IF arr.dtype = "float64" THEN ISqrt(((v * arr.num) \div arr.den) \div 65025) % 256
                             ELSE v % 256

\* The array cast to 8 bits; normalized says whether its maximum is <= 1.
ScaledToUint8(arr, normalized) ==
    [i \in 1..arr.shape[1] |-> [j \in 1..arr.shape[2] |->
        [b \in 1..Len(arr.data[i][j]) |->
            IF normalized THEN Times255AsUint8(arr, arr.data[i][j][b])
                          ELSE AsUint8(arr, arr.data[i][j][b])]]]

\* Image.fromarray(data, mode=...) for an array of the given shape.
FromArray(shape, data) ==
    IF Len(shape) = 2
    THEN Return([mode |-> "L", size |-> <<shape[2], shape[1]>>, format |-> "",
                 data |-> data])
    ELSE IF shape[3] = 3
    THEN Return([mode |-> "RGB", size |-> <<shape[2], shape[1]>>, format |-> "",
                 data |-> data])
    ELSE Raise("ValueError", "Too many dimensions", NoImage)

\* def convert_array_to_pil(img_array, mode='RGB')
convert_array_to_pil(arr, mode) ==
    FromArray(arr.shape, ScaledToUint8(arr, MaxAtMostOne(arr)))

\* A product cast to 8 bits without clipping: it wraps modulo 256.
BlendWrap(v, k) == ((k * v) \div 10) % 256

\* One band value of Image.blend(degenerate, image, factor) with the black
\* degenerate image: factor 1.0 copies, a factor below 1 truncates the
\* product, a factor above 1 clips it to 255.  k is the factor in tenths.
BlendBlack(v, k) ==
    IF k = 10 THEN v
    ELSE IF k < 10 THEN (k * v) \div 10
    ELSE IF k * v >= 2550 THEN 255 ELSE (k * v) \div 10

\* ImageEnhance.Brightness(image).enhance(factor): blends the image with a
\* black image that carries the image's own alpha band, so alpha is kept.
\* Image.blend refuses bilevel, palette and non-8-bit images.
BrightnessEnhance(im, k) ==
    IF im.mode \in {"1", "P", "I;16"}
    THEN Raise("ValueError", "image has wrong mode", NoImage)
    ELSE Return([mode |-> im.mode, size |-> im.size, format |-> "",
                 data |-> [i \in 1..im.size[2] |-> [j \in 1..im.size[1] |->
                     [b \in 1..Bands(im.mode) |->
                        IF HasAlpha(im.mode) /\ b = Bands(im.mode)
                        THEN im.data[i][j][b]
                        ELSE BlendBlack(im.data[i][j][b], k)]]]])

(***************************************************************************)
(* Export.                                                                 *)
(***************************************************************************)
\* The modes each encoder writes.
WritableModes(format_type) ==
    IF format_type = "PNG" THEN {"1", "L", "LA", "I", "I;16", "P", "RGB", "RGBA"}
                           ELSE {"1", "L", "RGB", "RGBX", "CMYK", "YCbCr"}

\* def create_download_link(img, filename, format_type): the encoded bytes.
\* A PNG payload keeps the pixels; a JPEG payload is lossy and is described
\* by its mode and size alone.
create_download_link(img, filename, format_type) ==
    IF img.mode \in WritableModes(format_type)
    THEN Return([format |-> format_type, mode |-> img.mode, size |-> img.size,
                 data |-> IF format_type = "PNG" THEN img.data ELSE <<>>])
    ELSE Raise("OSError", "cannot write mode " \o img.mode \o " as " \o format_type,
               [format |-> "", mode |-> "", size |-> <<0, 0>>, data |-> <<>>])

\* processed_pil.convert('RGB') of an RGBA image: the alpha band is dropped.
ConvertRGB(im) ==
    [mode |-> "RGB", size |-> im.size, format |-> "",
     data |-> [i \in 1..im.size[2] |-> [j \in 1..im.size[1] |->
                 SubSeq(im.data[i][j], 1, 3)]]]

\* process_type.lower().replace(' ', '_')
LowerUnderscore(pt) ==
    CASE pt = "Original" -> "original"
      [] pt = "Grayscale" -> "grayscale"
      [] pt = "Edge Detection" -> "edge_detection"
      [] pt = "Brightness Adjustment" -> "brightness_adjustment"

\* file_name of a download button.
FileName(pt, ext) == "processed_" \o LowerUnderscore(pt) \o ext

(***************************************************************************)
(* Statistics.                                                             *)
(***************************************************************************)
\* The elements of an array for the statistics, and the unit they are in:
\* an integer array as it is; a float array in units of 1 / 2550 (each
\* element rounded down to that unit).
Quantized(f, num, den) == [k \in 1..Len(f) |-> ISqrt((100 * f[k] * num) \div den)]

StatValues(arr) ==
    IF arr.dtype = "float64" THEN Quantized(Flatten(arr.data), arr.num, arr.den)
                             ELSE Flatten(arr.data)

\* The mean and the standard deviation in tenths, from the number n of
\* elements, their sum S and the sum Q of their squares: with V = n * Q -
\* S * S the standard deviation is sqrt(V) / n.  unit is 1 for an integer
\* array and 255 for a float array (elements in units of 1 / 2550).
Tenths(n, S, Q, unit) ==
    IF unit = 1
    THEN <<RoundHalfEven(10 * S, n), (ISqrt(400 * (n * Q - S * S)) + n) \div (2 * n)>>
    ELSE <<RoundHalfEven(S, 255 * n),
           (ISqrt(4 * (n * Q - S * S)) + 255 * n) \div (510 * n)>>

\* f"{np.mean(a):.1f}" and f"{np.std(a):.1f}" of the elements xs.
MeanStdOf(xs, unit) == Tenths(Len(xs), SumSeq(xs), SumOfSquares(xs), unit)

MeanStd(arr) == MeanStdOf(StatValues(arr), IF arr.dtype = "float64" THEN 255 ELSE 1)

(***************************************************************************)
(* The transform dispatch.                                                 *)
(***************************************************************************)
ProcessTypes == {"Original", "Grayscale", "Edge Detection", "Brightness Adjustment"}

\* The slider's values in tenths: 0.1 to 3.0 in steps of 0.1.
Factors == 1..30

\* brightness_factor when the slider is not rendered: the name is unbound.
Unbound == 0

\* A dispatch result: the processed image and array, or the exception.
Processed(pil, img) == [ok |-> TRUE, pil |-> pil, img |-> img, err |-> NoErr]

Failed(err) == [ok |-> FALSE, pil |-> NoImage, img |-> NoArray, err |-> err]

\* process_type == "Original"
OriginalBranch(im, arr) == Processed(im, arr)

\* The processed pair once convert_array_to_pil has returned or raised.
WithPil(pil, img) == IF pil.ok THEN Processed(pil.val, img) ELSE Failed(pil.err)

\* The gray reduction both branches start with: cv2.cvtColor for a 3-D
\* array, the array itself otherwise.
ToGray(arr) == IF Len(arr.shape) = 3 THEN CvtColorRGB2GRAY(arr) ELSE Return(arr)

\* processed_img = gray; processed_pil = convert_array_to_pil(processed_img, 'L')
GrayscaleOf(gray) ==
    IF gray.ok THEN WithPil(convert_array_to_pil(gray.val, "L"), gray.val)
               ELSE Failed(gray.err)

\* A Grayscale branch without the shape test: cv2.cvtColor on every array.
GrayscaleAlwaysConverts(im, arr) == GrayscaleOf(CvtColorRGB2GRAY(arr))

\* process_type == "Grayscale"
GrayscaleBranch(im, arr) == GrayscaleOf(ToGray(arr))

\* processed_pil = convert_array_to_pil(processed_img, 'L')
EdgesToPil(edges) == WithPil(convert_array_to_pil(edges, "L"), edges)

\* processed_img = filters.sobel(gray_img)
EdgesOf(gray) == IF gray.ok THEN EdgesToPil(Sobel(gray.val)) ELSE Failed(gray.err)

\* An Edge Detection branch without the gray reduction: the filter runs on
\* the array as uploaded and keeps its channel axis.
EdgesKeepingChannels(im, arr) ==
    EdgesToPil([dtype |-> "float64", shape |-> arr.shape,
                data |-> [i \in 1..arr.shape[1] |-> [j \in 1..arr.shape[2] |->
                            [b \in 1..Len(arr.data[i][j]) |->
                                Sobel(arr).data[i][j][1]]]],
                num |-> 1, den |-> 32])

\* process_type == "Edge Detection"
EdgeDetectionBranch(im, arr) == EdgesOf(ToGray(arr))

\* processed_img = np.array(processed_pil)
BrightnessOf(pil) ==
    IF pil.ok THEN Processed(pil.val, NpArray(pil.val)) ELSE Failed(pil.err)

\* process_type == "Brightness Adjustment"
BrightnessBranch(im, arr, k) == BrightnessOf(BrightnessEnhance(im, k))

\* The if / elif chain on process_type.
Transform(pt, im, arr, k) ==
    CASE pt = "Original" -> OriginalBranch(im, arr)
      [] pt = "Grayscale" -> GrayscaleBranch(im, arr)
      [] pt = "Edge Detection" -> EdgeDetectionBranch(im, arr)
      [] pt = "Brightness Adjustment" -> BrightnessBranch(im, arr, k)

\* A Grayscale branch that scaled the array it was given in place.
ArrayScaledInPlace(pt, arr) ==
    IF pt = "Grayscale"
    THEN [arr EXCEPT !.data = [i \in 1..arr.shape[1] |-> [j \in 1..arr.shape[2] |->
                                 [b \in 1..Len(arr.data[i][j]) |->
                                     (arr.data[i][j][b] * 255) % 256]]]]
    ELSE arr

\* img_array as the dispatch leaves it: no branch writes into the array it
\* reads (the conversions build new arrays).
ArrayAfterTransform(pt, arr) == arr

(***************************************************************************)
(* One execution of the script.                                            *)
(***************************************************************************)
\* What the page shows: the upload prompt, the original image and its
\* information panel, the processed image, the download buttons, the two
\* statistics columns (<<mean, std>> in tenths, <<>> when not shown), the
\* error message and the recovery hint.
BlankScreen ==
    [prompt |-> FALSE, original |-> NoImage, info |-> NoInformation,
     processed |-> NoImage, downloads |-> <<>>,
     stats_original |-> <<>>, stats_processed |-> <<>>,
     error |-> "", hint |-> ""]

\* The names of a run before any is bound, and an empty page.
BlankRun ==
    [image |-> NoImage, img_array |-> NoArray, process_type |-> "",
     brightness_factor |-> Unbound, processed_pil |-> NoImage,
     processed_img |-> NoArray, jpeg_img |-> NoImage,
     screen |-> BlankScreen, session |-> "rendered"]

\* The st.info text of the handler.
HintText == "Please try uploading a different image or check the file format."

\* A handler for input/output errors alone, as "except IOError" would be.
CatchesIOErrorsOnly(cls) == cls \in {"UnidentifiedImageError", "OSError"}

\* except Exception as e
Catches(cls) == cls \in ExceptionClasses

\* The handler: st.error with the exception's text and st.info with the
\* fixed hint; an exception the clause does not catch ends the run.
Handler(run, err) ==
    IF Catches(err.cls)
    THEN [run EXCEPT !.screen.error = "Error processing image: " \o err.msg,
                     !.screen.hint = HintText,
                     !.session = "error"]
    ELSE [run EXCEPT !.session = "crashed"]

\* A download button.
DownloadButton(label, payload, name, mime) ==
    [label |-> label, data |-> payload, file_name |-> name, mime |-> mime]

\* The JPEG button: the encoder's bytes, or its exception after the PNG
\* button has been shown.
JpegExported(pt, png_button, jpeg, jpeg_data) ==
    IF jpeg_data.ok
    THEN [ok |-> TRUE, err |-> NoErr, jpeg_img |-> jpeg,
          downloads |-> <<png_button,
                          DownloadButton("Download as JPEG", jpeg_data.val,
                                         FileName(pt, ".jpg"), "image/jpeg")>>]
    ELSE [ok |-> FALSE, err |-> jpeg_data.err, jpeg_img |-> jpeg,
          downloads |-> <<png_button>>]

\* jpeg_data = create_download_link(jpeg_img, "processed_image.jpg", "JPEG")
JpegColumn(pt, png_button, jpeg) ==
    JpegExported(pt, png_button, jpeg,
                 create_download_link(jpeg, "processed_image.jpg", "JPEG"))

\* The PNG button, then the JPEG column with an RGBA image converted to RGB.
PngExported(pt, pil, png_data) ==
    IF png_data.ok
    THEN JpegColumn(pt,
                    DownloadButton("Download as PNG", png_data.val,
                                   FileName(pt, ".png"), "image/png"),
                    IF pil.mode = "RGBA" THEN ConvertRGB(pil) ELSE pil)
    ELSE [ok |-> FALSE, err |-> png_data.err, jpeg_img |-> NoImage,
          downloads |-> <<>>]

\* The download section: nothing for "Original".
Export(pt, pil) ==
    IF pt = "Original"
    THEN [ok |-> TRUE, err |-> NoErr, jpeg_img |-> NoImage, downloads |-> <<>>]
    ELSE PngExported(pt, pil, create_download_link(pil, "processed_image.png", "PNG"))

\* The metrics, once both gray reductions have returned or raised; the
\* processed column is shown unless "Original".
Metrics(pt, gray_for_stats, processed_gray) ==
    IF ~gray_for_stats.ok
    THEN [ok |-> FALSE, err |-> gray_for_stats.err, original |-> <<>>,
          processed |-> <<>>]
    ELSE IF ~processed_gray.ok
    THEN [ok |-> FALSE, err |-> processed_gray.err, original |-> <<>>,
          processed |-> <<>>]
    ELSE [ok |-> TRUE, err |-> NoErr,
          original |-> MeanStd(gray_for_stats.val),
          processed |-> IF pt # "Original" THEN MeanStd(processed_gray.val)
                                           ELSE <<>>]

\* The statistics section: both gray reductions are computed before any
\* metric is shown.
Statistics(pt, arr, pimg) == Metrics(pt, ToGray(arr), ToGray(pimg))

\* The end of the try block: the metrics are shown.
Measured(run, st) ==
    IF st.ok THEN [run EXCEPT !.screen.stats_original = st.original,
                              !.screen.stats_processed = st.processed]
             ELSE Handler(run, st.err)

\* After the download section.
Exported(run, pt, ex) ==
    IF ex.ok THEN Measured([run EXCEPT !.screen.downloads = ex.downloads,
                                       !.jpeg_img = ex.jpeg_img],
                           Statistics(pt, run.img_array, run.processed_img))
             ELSE Handler([run EXCEPT !.screen.downloads = ex.downloads,
                                      !.jpeg_img = ex.jpeg_img], ex.err)

\* After the dispatch: the processed image is shown.
Dispatched(run, pt, tr) ==
    IF tr.ok THEN Exported([run EXCEPT !.processed_pil = tr.pil,
                                       !.processed_img = tr.img,
                                       !.screen.processed = tr.pil],
                           pt, Export(pt, tr.pil))
             ELSE Handler(run, tr.err)

\* After the decode: the original image and its information are shown, the
\* selectbox returns pt and, in the brightness mode, the slider returns k.
Acquired(file, im, arr, pt, k) ==
    Dispatched([BlankRun EXCEPT !.image = im,
                                !.img_array = ArrayAfterTransform(pt, arr),
                                !.screen.original = im,
                                !.screen.info = ImageInformation(file, im, arr),
                                !.process_type = pt,
                                !.brightness_factor = k],
               pt, Transform(pt, im, arr, k))

\* After Image.open.
Opened(file, opened, pt, k) ==
    IF opened.ok THEN Acquired(file, opened.val, NpArray(opened.val), pt, k)
                 ELSE Handler(BlankRun, opened.err)

\* The script from the file uploader to its last line.  sel and sl are the
\* values the selectbox and the slider return if the run reaches them.
Script(file, sel, sl) ==
    IF file.kind = "none"
    THEN [BlankRun EXCEPT !.screen.prompt = TRUE, !.session = "idle"]
    ELSE Opened(file, ImageOpen(file), sel,
                IF sel = "Brightness Adjustment" THEN sl ELSE Unbound)

(***************************************************************************)
(* The interactions.                                                       *)
(***************************************************************************)
\* A widget keeps its value from one run to the next only if the last run
\* rendered it; one rendered anew shows its default (index 0, value=1.0).
SelectboxValue == IF process_type = "" THEN "Original" ELSE process_type

SliderValue == IF brightness_factor = Unbound THEN 10 ELSE brightness_factor

\* The inputs a run can meet; the slider's value matters only in the
\* brightness mode.
RunInputs ==
    {x \in (Uploads \cup {NoFile}) \X ProcessTypes \X Factors :
        x[2] = "Brightness Adjustment" \/ x[3] = 10}

\* Script on every one of these inputs, tabulated once (@@ makes the
\* function a table).
ScriptOn == [x \in RunInputs |-> Script(x[1], x[2], x[3])] @@ <<>>

\* One run of the script: looked up for the enumerated uploads.
RunScript(file, sel, sl) ==
    IF file \in Uploads \cup {NoFile}
    THEN ScriptOn[<<file, sel, IF sel = "Brightness Adjustment" THEN sl ELSE 10>>]
    ELSE Script(file, sel, sl)

\* A run that kept the processed result of the last run for an unchanged
\* upload, as a cache keyed by the file alone would.
RenderedCached(file, r) ==
    /\ uploaded_file' = file
    /\ image' = r.image
    /\ img_array' = r.img_array
    /\ process_type' = r.process_type
    /\ brightness_factor' = r.brightness_factor
    /\ processed_pil' = IF file = uploaded_file /\ processed_pil # NoImage
                            /\ r.processed_pil # NoImage
                        THEN processed_pil ELSE r.processed_pil
    /\ processed_img' = IF file = uploaded_file /\ processed_pil # NoImage
                            /\ r.processed_pil # NoImage
                        THEN processed_img ELSE r.processed_img
    /\ jpeg_img' = r.jpeg_img
    /\ screen' = r.screen
    /\ session' = r.session

\* The names and the page a run leaves: every run binds its names anew.
Rendered(file, r) ==
    /\ uploaded_file' = file
    /\ image' = r.image
    /\ img_array' = r.img_array
    /\ process_type' = r.process_type
    /\ brightness_factor' = r.brightness_factor
    /\ processed_pil' = r.processed_pil
    /\ processed_img' = r.processed_img
    /\ jpeg_img' = r.jpeg_img
    /\ screen' = r.screen
    /\ session' = r.session

\* The page after the script has run on the given inputs.
Rerun(file, sel, sl) ==
    Rendered(file, RunScript(file, sel, sl))

\* The user uploads a file.
Upload(f) ==
    /\ session # "crashed"
    /\ Rerun(f, SelectboxValue, SliderValue)

\* The user removes the uploaded file.
RemoveUpload ==
    /\ session # "crashed"
    /\ uploaded_file # NoFile
    /\ Rerun(NoFile, SelectboxValue, SliderValue)

\* The user picks a processing type in the selectbox (rendered by the last
\* run).
SelectProcessType(pt) ==
    /\ session # "crashed"
    /\ process_type # ""
    /\ pt # process_type
    /\ Rerun(uploaded_file, pt, SliderValue)

\* The user moves the brightness slider (rendered by the last run).
MoveSlider(k) ==
    /\ session # "crashed"
    /\ brightness_factor # Unbound
    /\ k # brightness_factor
    /\ Rerun(uploaded_file, process_type, k)

Init ==
    /\ uploaded_file = NoFile
    /\ image = NoImage
    /\ img_array = NoArray
    /\ process_type = ""
    /\ brightness_factor = Unbound
    /\ processed_pil = NoImage
    /\ processed_img = NoArray
    /\ jpeg_img = NoImage
    /\ screen = [BlankScreen EXCEPT !.prompt = TRUE]
    /\ session = "idle"

Next ==
    \/ \E f \in Uploads : Upload(f)
    \/ RemoveUpload
    \/ \E pt \in ProcessTypes : SelectProcessType(pt)
    \/ \E k \in Factors : MoveSlider(k)

Spec == Init /\ [][Next]_vars

(***************************************************************************)
(* A second specification for the brightness arithmetic: a 1 x 1 RGB       *)
(* upload for every 8-bit value, already in the brightness mode at the     *)
(* slider's default, and every slider move from there.                     *)
(***************************************************************************)
PixelFile(v) ==
    [kind |-> "image", format |-> "PNG", mode |-> "RGB", size |-> <<1, 1>>,
     data |-> << << <<v, 255 - v, 128>> >> >>, nbytes |-> 70]

InitPixels ==
    \E v \in 0..255 :
        /\ uploaded_file = PixelFile(v)
        /\ image = Script(PixelFile(v), "Brightness Adjustment", 10).image
        /\ img_array = Script(PixelFile(v), "Brightness Adjustment", 10).img_array
        /\ process_type = "Brightness Adjustment"
        /\ brightness_factor = 10
        /\ processed_pil = Script(PixelFile(v), "Brightness Adjustment", 10).processed_pil
        /\ processed_img = Script(PixelFile(v), "Brightness Adjustment", 10).processed_img
        /\ jpeg_img = Script(PixelFile(v), "Brightness Adjustment", 10).jpeg_img
        /\ screen = Script(PixelFile(v), "Brightness Adjustment", 10).screen
        /\ session = Script(PixelFile(v), "Brightness Adjustment", 10).session

NextPixels == \E k \in Factors : MoveSlider(k)

SpecPixels == InitPixels /\ [][NextPixels]_vars

(***************************************************************************)
(* Properties.                                                             *)
(***************************************************************************)
\* The decoded upload and its array, from the file alone.
Decoded == ImageOpen(uploaded_file).val

DecodedArray == NpArray(ImageOpen(uploaded_file).val)

\* The names of the last run, as Script returns them.
Names ==
    [image |-> image, img_array |-> img_array, process_type |-> process_type,
     brightness_factor |-> brightness_factor, processed_pil |-> processed_pil,
     processed_img |-> processed_img, jpeg_img |-> jpeg_img,
     screen |-> screen, session |-> session]

\* The exception of the first stage that raises, NoErr if none does.
StageFailure(opened, tr, ex, st) ==
    IF ~opened.ok THEN opened.err
    ELSE IF ~tr.ok THEN tr.err
    ELSE IF ~ex.ok THEN ex.err
    ELSE IF ~st.ok THEN st.err
    ELSE NoErr

FirstFailure(file, pt, k) ==
    StageFailure(ImageOpen(file),
                 Transform(pt, ImageOpen(file).val, NpArray(ImageOpen(file).val), k),
                 Export(pt, Transform(pt, ImageOpen(file).val,
                                      NpArray(ImageOpen(file).val), k).pil),
                 Statistics(pt, NpArray(ImageOpen(file).val),
                            Transform(pt, ImageOpen(file).val,
                                      NpArray(ImageOpen(file).val), k).img))

\* The page reports exactly the failure e of the pass (none: NoErr).
Reported(e) ==
    IF e = NoErr
    THEN session = "rendered" /\ screen.error = "" /\ screen.hint = ""
    ELSE /\ session = "error"
         /\ screen.error = "Error processing image: " \o e.msg
         /\ screen.hint = HintText

C1_FailureReported ==
    /\ session \in {"idle", "rendered", "error"}
    /\ uploaded_file # NoFile =>
          Reported(FirstFailure(uploaded_file, SelectboxValue, brightness_factor))

\* The whole state is what one run of the script on the current upload and
\* the current control values gives, whatever came before.
C1_FreshPass == Names = RunScript(uploaded_file, SelectboxValue, SliderValue)

C1_RecoveryStep ==
    (session = "error" /\ uploaded_file'.kind = "image"
                       /\ uploaded_file' # uploaded_file)
        => C1_FreshPass'

IsResult(tr) ==
    /\ tr.ok
    /\ processed_pil = tr.pil
    /\ processed_img = tr.img
    /\ screen.processed = tr.pil

\* C2: after any sequence of interactions, the processed image and array
\* of a successful pass are the dispatch applied to the current mode, the
\* current upload and the current brightness factor.
C2_Recomputed ==
    session = "rendered" =>
        IsResult(Transform(process_type, Decoded, DecodedArray, brightness_factor))

\* A brightened colour image, reached through a mode change and a slider
\* move.
C2_Witness ==
    /\ session = "rendered"
    /\ process_type = "Brightness Adjustment"
    /\ brightness_factor = 25
    /\ image.mode = "RGB"
    /\ processed_pil # image

\* C3 (as stated): for a decodable upload every mode but Original offers
\* the PNG and the JPEG download under the deterministic names, and
\* Original offers none.
C3_TwoDownloads ==
    uploaded_file.kind = "image" =>
        IF process_type = "Original"
        THEN screen.downloads = <<>>
        ELSE /\ Len(screen.downloads) = 2
             /\ screen.downloads[1].file_name
                    = "processed_" \o LowerUnderscore(process_type) \o ".png"
             /\ screen.downloads[1].data.format = "PNG"
             /\ screen.downloads[2].file_name
                    = "processed_" \o LowerUnderscore(process_type) \o ".jpg"
             /\ screen.downloads[2].data.format = "JPEG"

\* C4 (as stated): the image handed to the JPEG encoder never carries an
\* alpha channel, and a JPEG payload has one or three channels.
C4_JpegWithoutAlpha ==
    /\ jpeg_img # NoImage =>
          ~HasAlpha(jpeg_img.mode) /\ Bands(jpeg_img.mode) \in {1, 3}
    /\ \A n \in 1..Len(screen.downloads) :
          screen.downloads[n].data.format = "JPEG" =>
              Bands(screen.downloads[n].data.mode) \in {1, 3}

\* C5 (as stated): the array of a decoded upload has shape (H, W) or
\* (H, W, 3) and the channel count shown is 1 or 3.
C5_ThreeOrOneChannels ==
    uploaded_file.kind = "image" =>
        /\ \/ img_array.shape = <<uploaded_file.size[2], uploaded_file.size[1]>>
           \/ img_array.shape = <<uploaded_file.size[2], uploaded_file.size[1], 3>>
        /\ screen.info.channels[1] \in {1, 3}

\* C5 (amended): the array of a decoded upload has shape (H, W) for a
\* single-band source and (H, W, C) for a source of C > 1 bands, C being 2,
\* 3 or 4; the channel count shown is C (Color) or 1 (Grayscale).
C5_ChannelsOfMode ==
    uploaded_file.kind = "image" =>
        IF uploaded_file.mode \in {"1", "L", "P", "I;16"}
        THEN /\ img_array.shape = <<uploaded_file.size[2], uploaded_file.size[1]>>
             /\ screen.info.channels = <<1, "Grayscale">>
        ELSE /\ img_array.shape = <<uploaded_file.size[2], uploaded_file.size[1],
                                    Len(uploaded_file.data[1][1])>>
             /\ Len(uploaded_file.data[1][1]) \in {2, 3, 4}
             /\ screen.info.channels = <<Len(uploaded_file.data[1][1]), "Color">>

\* An RGBA upload: four channels in the array and on the page.
C5_Witness ==
    /\ uploaded_file.mode = "RGBA"
    /\ Len(img_array.shape) = 3
    /\ img_array.shape[3] = 4
    /\ screen.info.channels = <<4, "Color">>

\* C6: in the brightness mode every band value of the processed image is in
\* 0..255; a product of the factor and the value that reaches 255 gives
\* 255, a smaller one its integer part; the factor 1.0 gives the value
\* back; and the processed image has the mode, the size and the channels of
\* the upload.
C6_BrightnessClamped ==
    (session = "rendered" /\ process_type = "Brightness Adjustment") =>
        /\ processed_pil.mode = image.mode
        /\ processed_pil.size = image.size
        /\ processed_img.shape = img_array.shape
        /\ processed_img.data = processed_pil.data
        /\ \A i \in 1..Len(image.data) : \A j \in 1..Len(image.data[i]) :
           \A b \in 1..Len(image.data[i][j]) :
              /\ processed_pil.data[i][j][b] \in 0..255
              /\ brightness_factor = 10 =>
                    processed_pil.data[i][j][b] = image.data[i][j][b]
              /\ brightness_factor * image.data[i][j][b] >= 2550 =>
                    processed_pil.data[i][j][b] = 255
              /\ brightness_factor * image.data[i][j][b] < 2550 =>
                    processed_pil.data[i][j][b]
                        = (brightness_factor * image.data[i][j][b]) \div 10

\* The value 200 at factor 3.0: the product 600 shows as 255.
C6_Witness ==
    /\ session = "rendered"
    /\ brightness_factor = 30
    /\ image.data[1][1][1] = 200
    /\ processed_pil.data[1][1][1] = 255
    /\ processed_pil.data[1][1][2] = 165

\* C7: the Grayscale policy applied to the result of the Grayscale policy
\* gives that result again.
C7_GrayscaleIdempotent ==
    (session = "rendered" /\ process_type = "Grayscale") =>
        GrayscaleBranch(processed_pil, processed_img)
            = Processed(processed_pil, processed_img)

\* A colour upload reduced to gray.
C7_Witness ==
    /\ session = "rendered"
    /\ process_type = "Grayscale"
    /\ Len(img_array.shape) = 3
    /\ Len(processed_img.shape) = 2
    /\ image.data[1][1] = <<200, 100, 50>>
    /\ processed_img.data[1][1] = <<124>>

\* C8: once the Edge Detection branch has returned, the processed array is
\* 2-dimensional with the height and width of the input array, and the
\* processed image is a single-channel image of the upload's size.
C8_EdgesSingleChannel ==
    (process_type = "Edge Detection" /\ processed_pil # NoImage) =>
        /\ Len(processed_img.shape) = 2
        /\ processed_img.shape = <<img_array.shape[1], img_array.shape[2]>>
        /\ Len(processed_img.data) = img_array.shape[1]
        /\ \A i \in 1..Len(processed_img.data) :
              /\ Len(processed_img.data[i]) = img_array.shape[2]
              /\ \A j \in 1..Len(processed_img.data[i]) :
                    Len(processed_img.data[i][j]) = 1
        /\ processed_pil.mode = "L"
        /\ processed_pil.size = image.size

\* Edges of a colour upload that is wider than high.
C8_Witness ==
    /\ session = "rendered"
    /\ process_type = "Edge Detection"
    /\ img_array.shape = <<1, 2, 3>>
    /\ processed_img.shape = <<1, 2>>
    /\ processed_pil.data[1][1][1] > 0

\* Every element of the single-channel input is at most 1.
InputAtMostOne ==
    \A i \in 1..Len(img_array.data) : \A j \in 1..Len(img_array.data[i]) :
        img_array.data[i][j][1] <= 1

\* C9 (as stated): in Grayscale mode on a single-channel input the
\* processed array and the pixels of the processed image are the input's
\* values, all in 0..255.
C9_PassThroughShown ==
    (session = "rendered" /\ process_type = "Grayscale" /\ Len(img_array.shape) = 2) =>
        /\ processed_img = img_array
        /\ processed_pil.data = img_array.data
        /\ \A i \in 1..Len(img_array.data) : \A j \in 1..Len(img_array.data[i]) :
              img_array.data[i][j][1] \in 0..255

\* C9 (amended): the processed array is the input array; the pixels of the
\* processed image are the input's values times 255 when the input's
\* maximum is at most 1, and the input's values modulo 256 otherwise.
C9_PassThroughByRule ==
    (session = "rendered" /\ process_type = "Grayscale" /\ Len(img_array.shape) = 2) =>
        /\ processed_img = img_array
        /\ processed_pil.mode = "L"
        /\ processed_pil.size = image.size
        /\ \A i \in 1..Len(img_array.data) : \A j \in 1..Len(img_array.data[i]) :
              processed_pil.data[i][j]
                  = << IF InputAtMostOne THEN 255 * img_array.data[i][j][1]
                                         ELSE img_array.data[i][j][1] % 256 >>

\* An 8-bit gray upload of values 0 and 1 shown as 0 and 255.
C9_Witness ==
    /\ session = "rendered"
    /\ process_type = "Grayscale"
    /\ image.mode = "L"
    /\ img_array.data[1] = << <<0>>, <<1>> >>
    /\ processed_pil.data[1] = << <<0>>, <<255>> >>

\* C10: whatever the mode and the factor, the image and the array of the
\* pass are the decoded upload, the original shown and its information are
\* those of the upload, and the original statistics of a successful pass
\* are those of the upload's array.
C10_UploadImmutable ==
    uploaded_file.kind = "image" =>
        /\ image = Decoded
        /\ img_array = DecodedArray
        /\ screen.original = Decoded
        /\ screen.info = ImageInformation(uploaded_file, Decoded, DecodedArray)
        /\ session = "rendered" =>
              screen.stats_original = MeanStd(ToGray(DecodedArray).val)

\* A brightened upload whose processed array differs from the original.
C10_Witness ==
    /\ session = "rendered"
    /\ process_type = "Brightness Adjustment"
    /\ brightness_factor = 30
    /\ processed_img # img_array
    /\ img_array = DecodedArray
    /\ screen.stats_original = MeanStd(ToGray(DecodedArray).val)
    /\ screen.stats_processed # screen.stats_original

====
